---- MODULE Spec2Model ----
(***************************************************************************)
(* Model of the procedural tile map of src/src/tilemap.rs: the biome       *)
(* classifier (pick_biome, pick_tile, the *_tile constructors and          *)
(* calculate_grass_color), the climate model (get_heights,                 *)
(* get_partial_temp, get_percip_temp), the fractal noise sampler           *)
(* (NoiseMap::get_value), the facade get_tile, and the bevy systems        *)
(* spawn_map / update_inputs / update_map.                                 *)
(*                                                                         *)
(* Numbers.  The program computes in f64.  The model computes in fixed     *)
(* point: a real v is the integer v * U (U = 100, two decimals), so 3.0 is *)
(* 300 and 0.9 is 90.  Heights are whole metres and lapse rates are in     *)
(* units of 1e-6 degree per metre, so that lapse * height is exact.        *)
(* A product or quotient of two fixed-point numbers is rounded toward      *)
(* zero (Mul, Div), where f64 rounds to nearest.  Pan, which f64           *)
(* accumulates with a rounding error in the last place, is exact here;     *)
(* zoom is kept both ways (zoom_f64 is the f64, zoom its fixed-point       *)
(* value).                                                                 *)
(***************************************************************************)
EXTENDS Integers, Sequences, FiniteSets, TLC

VARIABLES
    seed, zoom, x_shift, y_shift,   \* the resources Seed, Zoom, XShift, YShift
    zoom_f64,                       \* Zoom as the f64 it is (zoom = to_fixed(zoom_f64))
    changed,                        \* resources whose change tick update_map has not seen
    tiles,                          \* the spawned tile entities
    frame,                          \* the frame number, and the systems that have run in it
    mapgen,                         \* the MapGen in use ("none": none built)
    op, args, ret,                  \* the function called, its arguments, its return
    calls,                          \* earlier get_tile calls on mapgen, kept for comparison
    history                         \* what update_map has been seen to do (SpecRedraw)

resources == <<seed, zoom, zoom_f64, x_shift, y_shift>>
world == <<changed, tiles, frame>>
harness == <<seed, zoom, zoom_f64, x_shift, y_shift, changed, tiles, frame, history>>
call == <<op, args, ret>>
vars ==
    <<seed, zoom, zoom_f64, x_shift, y_shift, changed, tiles, frame, mapgen, op, args, ret,
      calls, history>>

-----------------------------------------------------------------------------
(* Fixed-point arithmetic *)

U == 10 * 10

Abs(a) == IF a < 0 THEN -a ELSE a

\* n / d for d > 0, rounded toward zero (sign-symmetric, as f64 rounding is)
Quot(n, d) == IF n >= 0 THEN n \div d ELSE -((-n) \div d)

\* a * b and a / b of fixed-point numbers
Mul(a, b) == Quot(a * b, U)

Div(a, b) == Quot(a * U, b)

Min(a, b) == IF a < b THEN a ELSE b

RECURSIVE SqrtBetween(_, _, _)
\* the r in lo..hi with r * r <= n < (r + 1) * (r + 1), by bisection
SqrtBetween(n, lo, hi) ==
    IF lo >= hi THEN lo
    ELSE LET mid == (lo + hi + 1) \div 2
         IN  IF mid * mid <= n THEN SqrtBetween(n, mid, hi)
                               ELSE SqrtBetween(n, lo, mid - 1)

\* f64::sqrt of a fixed-point number >= 0, rounded down
Sqrt(a) == SqrtBetween(a * U, 0, Min(a * U, 40000))

-----------------------------------------------------------------------------
(* f64, exactly.  Zoom is compared with 0.2 after repeated additions and   *)
(* subtractions of 0.1, each rounded by f64 to 53 significant bits, and    *)
(* the rounding decides the comparison.  Beside its fixed-point value the  *)
(* model therefore keeps zoom as the f64 itself: a value v in [2^-4, 4) is *)
(* the integer v * 2^56, held as the pair <<hi, lo>> of its digits in base *)
(* 2^28.  Every f64 in that range is such an integer.                      *)

LIMB == 2 ^ 28

\* the f64 literals 1.0, 0.1 (0x3FB999999999999A) and 0.2 (0x3FC999999999999A)
F64_ONE == << LIMB, 0 >>

F64_TENTH == << 26843545, 161061274 >>

F64_FIFTH == << 53687091, 53687092 >>

\* the spacing of the f64 values around hi * 2^28, in units of 2^-56
f64_ulp(hi) ==
    IF hi < 2 ^ 25 THEN 1
    ELSE IF hi < 2 ^ 26 THEN 2
    ELSE IF hi < 2 ^ 27 THEN 4
    ELSE IF hi < 2 ^ 28 THEN 8
    ELSE IF hi < 2 ^ 29 THEN 16
    ELSE 32

\* the f64 nearest to hi * 2^28 + lo, ties to the even significand
f64_round(hi, lo) ==
    LET carry(l) == IF l = LIMB THEN << hi + 1, 0 >> ELSE << hi, l >>
        nearest(ulp, r) ==
            IF 2 * r < ulp \/ (2 * r = ulp /\ ((lo - r) \div ulp) % 2 = 0)
            THEN carry(lo - r)
            ELSE carry(lo - r + ulp)
        spaced(ulp) == nearest(ulp, lo % ulp)
    IN  spaced(f64_ulp(hi))

\* a + b and a - b (a > b) of f64: the exact result, rounded
f64_add(a, b) ==
    LET digits(lo) == f64_round(a[1] + b[1] + (lo \div LIMB), lo % LIMB)
    IN  digits(a[2] + b[2])

f64_sub(a, b) ==
    LET digits(lo) == f64_round(a[1] - b[1] - (IF lo < 0 THEN 1 ELSE 0), lo % LIMB)
    IN  digits(a[2] - b[2])

\* a > b of f64
f64_gt(a, b) == a[1] > b[1] \/ (a[1] = b[1] /\ a[2] > b[2])

\* the fixed-point number nearest to an f64
to_fixed(a) == ((a[1] \div (2 ^ 14)) * U + 2 ^ 13) \div (2 ^ 14)

-----------------------------------------------------------------------------
(* enum Biome *)

Biome ==
    { "Ocean", "PolarDesert",
      "SubpolarDryTundra", "SubpolarMoistTundra", "SubpolarWetTundra",
      "SubpolarRainTundra",
      "BorealDesert", "BorealDryScrub", "BorealMoistForest", "BorealWetForest",
      "BorealRainForest",
      "TemperateDesert", "TemperateDesertScrub", "TemperateSteppe",
      "TemperateMoistForest", "TemperateWetForest", "TemperateRainForest",
      "SubtropicalDesert", "SubtropicalDesertScrub", "SubtropicalThornWoodland",
      "SubtropicalDryForest", "SubtropicalMoistForest", "SubtropicalWetForest",
      "SubtropicalRainForest",
      "TropicalDesert", "TropicalDesertScrub", "TropicalThornWoodland",
      "TropicalVeryDryForest", "TropicalDryForest", "TropicalMoistForest",
      "TropicalWetForest", "TropicalRainForest" }

-----------------------------------------------------------------------------
(* MapGen::pick_biome: the ocean test, then (pick_land_biome) the          *)
(* if / else-if chain on temperature and percipitation, condition by       *)
(* condition.  height in metres, temperature and percipitation in 1/U.     *)

pick_land_biome(temperature, percipitation) ==
    IF temperature <= 0 THEN "PolarDesert"
    ELSE IF temperature > 0 /\ temperature <= 3 * U THEN
        IF percipitation <= 125 * U THEN "SubpolarDryTundra"
        ELSE IF percipitation > 125 * U /\ percipitation <= 250 * U THEN "SubpolarMoistTundra"
        ELSE IF percipitation > 250 * U /\ percipitation <= 500 * U THEN "SubpolarWetTundra"
        ELSE "SubpolarRainTundra"
    ELSE IF temperature > 3 * U /\ temperature <= 6 * U THEN
        IF percipitation <= 125 * U THEN "BorealDesert"
        ELSE IF percipitation > 125 * U /\ percipitation <= 250 * U THEN "BorealDryScrub"
        ELSE IF percipitation > 250 * U /\ percipitation <= 500 * U THEN "BorealMoistForest"
        ELSE IF percipitation > 500 * U /\ percipitation <= 1000 * U THEN "BorealWetForest"
        ELSE "BorealRainForest"
    ELSE IF temperature > 6 * U /\ temperature <= 12 * U THEN
        IF percipitation <= 125 * U THEN "TemperateDesert"
        ELSE IF percipitation > 125 * U /\ percipitation <= 250 * U THEN "TemperateDesertScrub"
        ELSE IF percipitation > 250 * U /\ percipitation <= 500 * U THEN "TemperateSteppe"
        ELSE IF percipitation > 500 * U /\ percipitation <= 1000 * U THEN "TemperateMoistForest"
        ELSE IF percipitation > 1000 * U /\ percipitation <= 2000 * U THEN "TemperateWetForest"
        ELSE "TemperateRainForest"
    ELSE IF temperature > 12 * U /\ temperature <= 24 * U THEN
        IF percipitation <= 125 * U THEN "SubtropicalDesert"
        ELSE IF percipitation > 125 * U /\ percipitation <= 250 * U THEN "SubtropicalDesertScrub"
        ELSE IF percipitation > 250 * U /\ percipitation <= 500 * U THEN "SubtropicalThornWoodland"
        ELSE IF percipitation > 500 * U /\ percipitation <= 1000 * U THEN "SubtropicalDryForest"
        ELSE IF percipitation > 1000 * U /\ percipitation <= 2000 * U THEN "SubtropicalMoistForest"
        ELSE IF percipitation > 2000 * U /\ percipitation <= 4000 * U THEN "SubtropicalWetForest"
        ELSE "SubtropicalRainForest"
    ELSE
        IF percipitation <= 125 * U THEN "TropicalDesert"
        ELSE IF percipitation > 125 * U /\ percipitation <= 250 * U THEN "TropicalDesertScrub"
        ELSE IF percipitation > 250 * U /\ percipitation <= 500 * U THEN "TropicalThornWoodland"
        ELSE IF percipitation > 500 * U /\ percipitation <= 1000 * U THEN "TropicalVeryDryForest"
        ELSE IF percipitation > 1000 * U /\ percipitation <= 2000 * U THEN "TropicalDryForest"
        ELSE IF percipitation > 2000 * U /\ percipitation <= 4000 * U THEN "TropicalMoistForest"
        ELSE IF percipitation > 4000 * U /\ percipitation <= 8000 * U THEN "TropicalWetForest"
        ELSE "TropicalRainForest"

pick_biome_ocean_below_zero(height, temperature, percipitation) ==
    IF height < 0 THEN "Ocean" ELSE pick_land_biome(temperature, percipitation)

pick_biome_open_upper_edge(height, temperature, percipitation) ==
    IF height <= 0 THEN "Ocean" ELSE pick_land_biome(temperature + 1, percipitation)

pick_biome(height, temperature, percipitation) ==
    IF height <= 0 THEN "Ocean" ELSE pick_land_biome(temperature, percipitation)

-----------------------------------------------------------------------------
(* Colors.  A Color is modelled by its red, green and blue channels, each  *)
(* in units of 1/U; the alpha channel is not modelled.                     *)

Rgb(r, g, b) == <<r, g, b>>

\* bevy: impl Mul<f32> for Color scales the three color channels
ColorMul(c, f) == <<Mul(c[1], f), Mul(c[2], f), Mul(c[3], f)>>

\* bevy: impl Add<Color> for Color adds channel by channel
ColorAdd(c, d) == <<c[1] + d[1], c[2] + d[2], c[3] + d[3]>>

YELLOW_COLOR == Rgb(Div(240, 255), Div(240, 255), Div(127, 255))

BLUE_COLOR == Rgb(Div(0, 255), Div(255, 255), Div(213, 255))

GREEN_COLOR == Rgb(Div(0, 255), Div(255, 255), Div(17, 255))

(* Biome::calculate_grass_color.  blue_color is computed and dropped, as in *)
(* the source.                                                              *)

calculate_grass_color_unhalved(temperature, percipitation) ==
    LET percip_p == Div(percipitation + 10000 * U, 10000 * U)
        temp_p == Div(temperature, 30 * U)
        deadness0 == ((U - percip_p) + temp_p) \div 2
        deadness == IF deadness0 < 0 THEN 0 ELSE deadness0
        green_color == ColorMul(GREEN_COLOR, deadness)
        yellow_color == ColorMul(YELLOW_COLOR, percip_p)
    IN  ColorAdd(green_color, yellow_color)

calculate_grass_color(temperature, percipitation) ==
    LET percip_p == Div(percipitation + 10000 * U, 10000 * U)
        temp_p == Div(temperature, 30 * U)
        deadness0 == ((U - percip_p) + temp_p) \div 2
        deadness == IF deadness0 < 0 THEN 0 ELSE deadness0
        alpine_p0 == Mul(60, U - temp_p) + Mul(40, deadness)
        alpine_p == IF alpine_p0 < 0 THEN 0 ELSE alpine_p0
        green_color == ColorMul(GREEN_COLOR, deadness)
        yellow_color == ColorMul(YELLOW_COLOR, percip_p)
        blue_color == ColorMul(BLUE_COLOR, alpine_p)
        grass_color == ColorMul(ColorAdd(green_color, yellow_color), 50)
    IN  grass_color

-----------------------------------------------------------------------------
(* struct Tile and the Biome::*_tile constructors *)

ocean_tile(temperature, percipitation) ==
    [index |-> 3, color |-> Rgb(0, 20, 80)]

polar_desert_tile(temperature, percipitation) ==
    [index |-> 3, color |-> Rgb(100, 100, 100)]

subpolar_dry_tundra_tile(temperature, percipitation) ==
    [index |-> 4, color |-> Rgb(100, 100, 100)]

subpolar_moist_tundra_tile(temperature, percipitation) ==
    [index |-> 0, color |-> calculate_grass_color(temperature, percipitation)]

subpolar_wet_tundra_tile(temperature, percipitation) ==
    [index |-> 0, color |-> calculate_grass_color(temperature, percipitation)]

subpolar_rain_tundra_tile(temperature, percipitation) ==
    [index |-> 0, color |-> calculate_grass_color(temperature, percipitation)]

boreal_desert_tile(temperature, percipitation) ==
    [index |-> 0, color |-> calculate_grass_color(temperature, percipitation)]

boreal_dry_scrub_tile(temperature, percipitation) ==
    [index |-> 0, color |-> calculate_grass_color(temperature, percipitation)]

boreal_moist_forest_tile(temperature, percipitation) ==
    [index |-> 0, color |-> calculate_grass_color(temperature, percipitation)]

boreal_wet_forest_tile(temperature, percipitation) ==
    [index |-> 0, color |-> calculate_grass_color(temperature, percipitation)]

boreal_rain_forest_tile(temperature, percipitation) ==
    [index |-> 0, color |-> calculate_grass_color(temperature, percipitation)]

temperate_desert_tile(temperature, percipitation) ==
    [index |-> 0, color |-> calculate_grass_color(temperature, percipitation)]

temperate_desert_scrub_tile(temperature, percipitation) ==
    [index |-> 0, color |-> calculate_grass_color(temperature, percipitation)]

temperate_steppe_tile(temperature, percipitation) ==
    [index |-> 0, color |-> calculate_grass_color(temperature, percipitation)]

temperate_moist_forest_tile(temperature, percipitation) ==
    [index |-> 0, color |-> calculate_grass_color(temperature, percipitation)]

temperate_wet_forest_tile(temperature, percipitation) ==
    [index |-> 0, color |-> calculate_grass_color(temperature, percipitation)]

temperate_rain_forest_tile(temperature, percipitation) ==
    [index |-> 0, color |-> calculate_grass_color(temperature, percipitation)]

subtropical_desert_tile(temperature, percipitation) ==
    [index |-> 0, color |-> calculate_grass_color(temperature, percipitation)]

subtropical_desert_scrub_tile(temperature, percipitation) ==
    [index |-> 0, color |-> calculate_grass_color(temperature, percipitation)]

subtropical_thorn_woodland_tile(temperature, percipitation) ==
    [index |-> 0, color |-> calculate_grass_color(temperature, percipitation)]

subtropical_dry_forest_tile(temperature, percipitation) ==
    [index |-> 0, color |-> calculate_grass_color(temperature, percipitation)]

subtropical_moist_forest_tile(temperature, percipitation) ==
    [index |-> 0, color |-> calculate_grass_color(temperature, percipitation)]

subtropical_wet_forest_tile(temperature, percipitation) ==
    [index |-> 0, color |-> calculate_grass_color(temperature, percipitation)]

subtropical_rain_forest_tile(temperature, percipitation) ==
    [index |-> 0, color |-> calculate_grass_color(temperature, percipitation)]

tropical_desert_tile_off_atlas(temperature, percipitation) ==
    [index |-> 6, color |-> Rgb(100, 100, 100)]

tropical_desert_tile(temperature, percipitation) ==
    [index |-> 2, color |-> Rgb(100, 100, 100)]

tropical_desert_scrub_tile(temperature, percipitation) ==
    [index |-> 1, color |-> Rgb(100, 100, 100)]

tropical_thorn_woodland_tile(temperature, percipitation) ==
    [index |-> 0, color |-> calculate_grass_color(temperature, percipitation)]

tropical_very_dry_forest_tile(temperature, percipitation) ==
    [index |-> 0, color |-> calculate_grass_color(temperature, percipitation)]

tropical_dry_forest_tile(temperature, percipitation) ==
    [index |-> 0, color |-> calculate_grass_color(temperature, percipitation)]

tropical_moist_forest_tile(temperature, percipitation) ==
    [index |-> 0, color |-> calculate_grass_color(temperature, percipitation)]

tropical_wet_forest_tile(temperature, percipitation) ==
    [index |-> 0, color |-> calculate_grass_color(temperature, percipitation)]

tropical_rain_forest_tile(temperature, percipitation) ==
    [index |-> 0, color |-> calculate_grass_color(temperature, percipitation)]

(* MapGen::pick_tile *)

pick_tile(biome, temperature, percipitation) ==
    CASE biome = "Ocean" -> ocean_tile(temperature, percipitation)
      [] biome = "PolarDesert" -> polar_desert_tile(temperature, percipitation)
      [] biome = "SubpolarDryTundra" -> subpolar_dry_tundra_tile(temperature, percipitation)
      [] biome = "SubpolarMoistTundra" -> subpolar_moist_tundra_tile(temperature, percipitation)
      [] biome = "SubpolarWetTundra" -> subpolar_wet_tundra_tile(temperature, percipitation)
      [] biome = "SubpolarRainTundra" -> subpolar_rain_tundra_tile(temperature, percipitation)
      [] biome = "BorealDesert" -> boreal_desert_tile(temperature, percipitation)
      [] biome = "BorealDryScrub" -> boreal_dry_scrub_tile(temperature, percipitation)
      [] biome = "BorealMoistForest" -> boreal_moist_forest_tile(temperature, percipitation)
      [] biome = "BorealWetForest" -> boreal_wet_forest_tile(temperature, percipitation)
      [] biome = "BorealRainForest" -> boreal_rain_forest_tile(temperature, percipitation)
      [] biome = "TemperateDesert" -> temperate_desert_tile(temperature, percipitation)
      [] biome = "TemperateDesertScrub" -> temperate_desert_scrub_tile(temperature, percipitation)
      [] biome = "TemperateSteppe" -> temperate_steppe_tile(temperature, percipitation)
      [] biome = "TemperateMoistForest" -> temperate_moist_forest_tile(temperature, percipitation)
      [] biome = "TemperateWetForest" -> temperate_wet_forest_tile(temperature, percipitation)
      [] biome = "TemperateRainForest" -> temperate_rain_forest_tile(temperature, percipitation)
      [] biome = "SubtropicalDesert" -> subtropical_desert_tile(temperature, percipitation)
      [] biome = "SubtropicalDesertScrub" -> subtropical_desert_scrub_tile(temperature, percipitation)
      [] biome = "SubtropicalThornWoodland" -> subtropical_thorn_woodland_tile(temperature, percipitation)
      [] biome = "SubtropicalDryForest" -> subtropical_dry_forest_tile(temperature, percipitation)
      [] biome = "SubtropicalMoistForest" -> subtropical_moist_forest_tile(temperature, percipitation)
      [] biome = "SubtropicalWetForest" -> subtropical_wet_forest_tile(temperature, percipitation)
      [] biome = "SubtropicalRainForest" -> subtropical_rain_forest_tile(temperature, percipitation)
      [] biome = "TropicalDesert" -> tropical_desert_tile(temperature, percipitation)
      [] biome = "TropicalDesertScrub" -> tropical_desert_scrub_tile(temperature, percipitation)
      [] biome = "TropicalThornWoodland" -> tropical_thorn_woodland_tile(temperature, percipitation)
      [] biome = "TropicalVeryDryForest" -> tropical_very_dry_forest_tile(temperature, percipitation)
      [] biome = "TropicalDryForest" -> tropical_dry_forest_tile(temperature, percipitation)
      [] biome = "TropicalMoistForest" -> tropical_moist_forest_tile(temperature, percipitation)
      [] biome = "TropicalWetForest" -> tropical_wet_forest_tile(temperature, percipitation)
      [] biome = "TropicalRainForest" -> tropical_rain_forest_tile(temperature, percipitation)

-----------------------------------------------------------------------------
(* NoiseMap.  The coherent-noise primitive (noise::Perlin, an external     *)
(* crate) is a fixed function of its seed and the sample point with values *)
(* in [-1, 1]; PerlinGet stands in for it.  The model runs the first       *)
(* MaxOctaves octaves of the loop.                                         *)

MaxOctaves == 3

NoiseVals == { -U, -(U \div 2), 0, U \div 2, U }

PerlinGet(perlin_seed, sample_x, sample_y) ==
    ((perlin_seed + 37 * sample_x + 91 * sample_y) % (2 * U + 1)) - U

Octaves(nm) == Min(nm.octaves, MaxOctaves)

\* amplitude and frequency on entry to loop iteration i (i = 0 first)
RECURSIVE Amplitude(_, _)
Amplitude(nm, i) == IF i = 0 THEN U ELSE Mul(Amplitude(nm, i - 1), nm.persistance)

RECURSIVE Frequency(_, _)
Frequency(nm, i) == IF i = 0 THEN U ELSE Mul(Frequency(nm, i - 1), nm.lacunarity)

\* accumulation after n iterations, given what the primitive returned in each
RECURSIVE Accumulation(_, _, _)
Accumulation(nm, samples, n) ==
    IF n = 0 THEN 0
    ELSE LET value == Div(samples[n] + U, 2 * U)
         IN  Accumulation(nm, samples, n - 1) + Mul(value, Amplitude(nm, n - 1))

accumulate_unclamped(nm, samples) == Accumulation(nm, samples, Octaves(nm))

\* the loop and the two clamps of get_value, given the primitive's outputs
accumulate(nm, samples) ==
    LET accumulation == Accumulation(nm, samples, Octaves(nm))
        clamped_hi == IF accumulation > U THEN U ELSE accumulation
        clamped_lo == IF clamped_hi < 0 THEN 0 ELSE clamped_hi
    IN  clamped_lo

\* what the primitive returns at the sample point of each octave
Samples(nm, x, y) ==
    [ n \in 1..Octaves(nm) |->
        LET sample_x == Mul(Div(x, nm.scale), Frequency(nm, n - 1))
            sample_y == Mul(Div(y, nm.scale), Frequency(nm, n - 1))
        IN  PerlinGet(nm.noise_map, sample_x, sample_y) ]

get_value(nm, x, y) == accumulate(nm, Samples(nm, x, y))

-----------------------------------------------------------------------------
(* MapGen::new *)

MapGen_new(seed_, zoom_, x_shift_, y_shift_, map_size, tile_size, tile_scale) ==
    [ map_size |-> map_size,
      tile_size |-> tile_size,
      tile_scale |-> tile_scale,
      height_noise |->
        [ noise_map |-> seed_, octaves |-> 24, scale |-> Mul(100 * U, zoom_),
          persistance |-> 30, lacunarity |-> 470 ],
      temperature_noise |->
        [ noise_map |-> seed_, octaves |-> 24, scale |-> Mul(70 * U, zoom_),
          persistance |-> 20, lacunarity |-> 410 ],
      humidity_noise |->
        [ noise_map |-> seed_, octaves |-> 8, scale |-> Mul(90 * U, zoom_),
          persistance |-> 8, lacunarity |-> 120 ],
      zoom |-> zoom_,
      x_shift |-> x_shift_,
      y_shift |-> y_shift_ ]

-----------------------------------------------------------------------------
(* The climate model.  Lapse rates are in 1e-6 degree per metre; a lapse   *)
(* rate times a height is brought back to units of 1/U by LapseTimes.      *)
(* The operators take the noise values the method reads at (x, y) in place *)
(* of (self, x, y).                                                        *)

DRY_ADB_LAPSE_RATE == 9800

WET_ADB_LAPSE_RATE == 5000

LapseTimes(lapse_rate, metres) == Quot(lapse_rate * metres, 100 * U)

\* MapGen::get_heights, given height_noise at (x, y) and at (-x, -y)
get_heights(r_dis, height_noise_xy, height_noise_neg) ==
    LET globe_noise == Mul(height_noise_xy, U - (r_dis + 30 + Mul(40, height_noise_neg)))
        height == Quot(9000 * globe_noise, U) - 1000
        absl_height == IF height < 0 THEN 0 ELSE height
    IN  <<height, absl_height>>

\* MapGen::get_partial_temp, given temperature_noise at (x, y)
get_partial_temp(absl_height, y_dis, lapse_rate, temperature_noise_xy) ==
    LET noisy_temp == 20 * temperature_noise_xy + 5 * U
        temperature == (-40) * y_dis + noisy_temp - LapseTimes(lapse_rate, absl_height)
    IN  temperature

evap_prob_of_unfolded(partial_temp) ==
    LET temp_clamp0 == IF partial_temp < 0 THEN 0 ELSE partial_temp
        temp_clamp == IF temp_clamp0 > 40 * U THEN 0 ELSE temp_clamp0
        evap_prob0 == U - Div(temp_clamp - 20 * U, 20 * U)
    IN  IF evap_prob0 < 0 THEN 0 ELSE evap_prob0

\* the evaporation probability of get_percip_temp
evap_prob_of(partial_temp) ==
    LET temp_clamp0 == IF partial_temp < 0 THEN 0 ELSE partial_temp
        temp_clamp == IF temp_clamp0 > 40 * U THEN 0 ELSE temp_clamp0
        evap_prob0 == U - Abs(Div(temp_clamp - 20 * U, 20 * U))
    IN  IF evap_prob0 < 0 THEN 0 ELSE evap_prob0

\* the effective lapse rate of get_percip_temp
avg_lapse_rate_of(evap_prob) ==
    (Mul(WET_ADB_LAPSE_RATE, evap_prob) + Mul(DRY_ADB_LAPSE_RATE, U - evap_prob)) \div 2

\* the water availability of get_percip_temp
water_map_of(absl_height, true_temp) ==
    IF absl_height = 0 THEN U
    ELSE IF true_temp > 25 * U /\ true_temp < 35 * U THEN
        LET water_map == IF absl_height < 3500 THEN U - Quot(absl_height * U, 3500) ELSE 0
        IN  IF water_map > 99 THEN 99 ELSE water_map
    ELSE 0

get_percip_temp_uncapped(absl_height, y_dis, partial_temp, temperature_noise_xy, humidity_noise_xy) ==
    LET water_dist == U - Mul(550, Abs(y_dis))
        avg_lapse_rate == avg_lapse_rate_of(evap_prob_of(partial_temp))
        true_temp == get_partial_temp(absl_height, y_dis, avg_lapse_rate, temperature_noise_xy)
        humidity == Mul(40, water_map_of(absl_height, true_temp)) + Mul(30, water_dist)
                    + Mul(30, humidity_noise_xy)
    IN  <<16000 * humidity, true_temp>>

\* MapGen::get_percip_temp, given temperature_noise and humidity_noise at (x, y)
get_percip_temp(absl_height, y_dis, partial_temp, temperature_noise_xy, humidity_noise_xy) ==
    LET water_dist == U - Mul(550, Abs(y_dis))
        evap_prob == evap_prob_of(partial_temp)
        avg_lapse_rate == avg_lapse_rate_of(evap_prob)
        true_temp == get_partial_temp(absl_height, y_dis, avg_lapse_rate, temperature_noise_xy)
        water_map == water_map_of(absl_height, true_temp)
        humidity == Mul(40, water_map) + Mul(30, water_dist) + Mul(30, humidity_noise_xy)
        percipitation0 == 16000 * humidity
        percipitation_cap == 500 * true_temp - 80 * U
        percipitation == IF percipitation0 > percipitation_cap
                         THEN percipitation_cap ELSE percipitation0
    IN  <<percipitation, true_temp>>


-----------------------------------------------------------------------------
(* MapGen::get_tile *)

transform_zoom_once(self, x, y) ==
    LET map_axis_len == Div(Mul(Mul(self.tile_size, self.tile_scale), self.map_size * U), 2 * U)
        let_r_dis(x1, y1, x_dis, y_dis) ==
            [ x |-> x1, y |-> y1, x_dis |-> x_dis, y_dis |-> y_dis,
              r_dis |-> Div(Sqrt(Mul(y_dis, y_dis) + Mul(x_dis, x_dis)), Sqrt(2 * U)) ]
        let_dis(x1, y1) == let_r_dis(x1, y1, Div(x1, map_axis_len), Div(y1, map_axis_len))
    IN  let_dis(Div(x, self.zoom) + Mul(Mul(map_axis_len, self.zoom), self.x_shift),
                Div(y, self.zoom) + Mul(Mul(map_axis_len, self.zoom), self.y_shift))

\* lines 343-350: the coordinate transform.  Each let of the source is an
\* operator of the values bound before it, applied to the bound expression.
transform(self, x, y) ==
    LET map_axis_len == Div(Mul(Mul(self.tile_size, self.tile_scale), self.map_size * U), 2 * U)
        let_r_dis(x1, y1, x_dis, y_dis) ==
            [ x |-> x1, y |-> y1, x_dis |-> x_dis, y_dis |-> y_dis,
              r_dis |-> Div(Sqrt(Mul(y_dis, y_dis) + Mul(x_dis, x_dis)), Sqrt(2 * U)) ]
        let_dis(x1, y1) ==
            let_r_dis(x1, y1, Div(Div(x1, map_axis_len), self.zoom),
                              Div(Div(y1, map_axis_len), self.zoom))
    IN  let_dis(Div(x, self.zoom) + Mul(Mul(map_axis_len, self.zoom), self.x_shift),
                Div(y, self.zoom) + Mul(Mul(map_axis_len, self.zoom), self.y_shift))

\* lines 352-354: the climate sample at (x, y)
climate_sample(self, x, y) ==
    LET let_percip_temp(heights, percip_temp) ==
            [ height |-> heights[1], abs_elevation |-> heights[2],
              temperature |-> percip_temp[2], percipitation |-> percip_temp[1] ]
        let_partial_temp(tr, temperature_noise_xy, heights, partial_temp) ==
            let_percip_temp(heights,
                get_percip_temp(heights[2], tr.y_dis, partial_temp, temperature_noise_xy,
                                get_value(self.humidity_noise, tr.x, tr.y)))
        let_heights(tr, temperature_noise_xy, heights) ==
            let_partial_temp(tr, temperature_noise_xy, heights,
                get_partial_temp(heights[2], tr.y_dis, Mul(DRY_ADB_LAPSE_RATE, 50),
                                 temperature_noise_xy))
        let_tr(tr) ==
            let_heights(tr, get_value(self.temperature_noise, tr.x, tr.y),
                get_heights(tr.r_dis, get_value(self.height_noise, tr.x, tr.y),
                            get_value(self.height_noise, -tr.x, -tr.y)))
    IN  let_tr(transform(self, x, y))

\* lines 366-370: pick_biome, then pick_tile
classify(height, temperature, percipitation) ==
    LET biome == pick_biome(height, temperature, percipitation)
    IN  [ biome |-> biome, tile |-> pick_tile(biome, temperature, percipitation) ]

\* the tile of a climate sample
tile_of(s) == classify(s.height, s.temperature, s.percipitation).tile

get_tile_counting_calls(self, x, y) ==
    LET shifted(t) == [ t EXCEPT !.index = (t.index + Cardinality(calls)) % 6 ]
    IN  shifted(tile_of(climate_sample(self, x, y)))

get_tile(self, x, y) == tile_of(climate_sample(self, x, y))

-----------------------------------------------------------------------------
(* Map geometry and the tile coordinates of spawn_map *)

TILE_SIZE == 16 * U

TILE_SCALE == U \div 4

MAP_SIZE == 250

\* spawn_map lines 698-699: the world coordinate of tile number n on an axis
tile_coord(n) == Mul(Mul(n * U, TILE_SIZE), TILE_SCALE)

\* the sprite cells of the texture atlas built by spawn_map (6 columns, 1 row)
ATLAS_CELLS == 6

-----------------------------------------------------------------------------
(* Input grids of the function specifications *)

Eps == 1

Near(cuts) == { c + d : c \in cuts, d \in (-Eps)..Eps }

TempCuts == { 0, 3 * U, 6 * U, 12 * U, 24 * U }

PrecCuts == { 125 * U, 250 * U, 500 * U, 1000 * U, 2000 * U, 4000 * U, 8000 * U }

HeightGrid == { -1000, -1, 0, 1, 3000 }

TempGrid == Near(TempCuts) \cup { -35 * U, 40 * U }

PrecGrid == Near(PrecCuts) \cup { -500 * U, 0, 16000 * U }

ElevationGrid == { 0, 1, 1000, 3499, 3500, 6000 }

DisGrid == { -U, -(U \div 2), -(U \div 10), 0, U \div 10, U \div 2, U }

DraftGrid == { -30 * U, -1, 0, 10 * U, 20 * U, 30 * U, 40 * U, 40 * U + 1, 60 * U }

UnitGrid == { 0, U \div 2, U }

\* the startup schedule (frame 0), before the first frame of the update schedule
Startup == [ number |-> 0, ran |-> {} ]

\* nothing seen yet: update_map has respawned the map respawns times, the
\* oldest assignment of a resource it has not yet answered was made in frame
\* pending (0: none), and the last it answered waited for it waited frames
NoHistory == [ respawns |-> 0, pending |-> 0, waited |-> 0 ]

\* the resources while no harness runs
Idle ==
    /\ seed = 829201 /\ zoom = U /\ zoom_f64 = F64_ONE /\ x_shift = 0 /\ y_shift = 0
    /\ changed = {} /\ tiles = {} /\ frame = Startup /\ history = NoHistory

\* a function about to be called with arguments a, and its return
\* (ret is <<>> until the function returns r, and <<r>> after)
Calling(name, a) == op = name /\ args = a /\ ret = <<>>

Returns(name, r) == op = name /\ ret = <<>> /\ ret' = <<r>> /\ UNCHANGED <<op, args>>

Returned(name) == op = name /\ ret # <<>>

Result == ret[1]

-----------------------------------------------------------------------------
(* SpecClassify: the biome classifier applied to the input grids *)

InitClassify ==
    /\ Idle /\ mapgen = "none" /\ calls = {}
    /\ \/ \E h \in HeightGrid, t \in TempGrid, p \in PrecGrid :
             Calling("pick_biome", <<h, t, p>>)
       \/ \E b \in Biome, t \in TempGrid, p \in PrecGrid :
             Calling("pick_tile", <<b, t, p>>)
       \/ \E h \in HeightGrid, t \in TempGrid, p \in PrecGrid :
             Calling("classify", <<h, t, p>>)
       \/ \E t \in TempGrid, p \in PrecGrid \cup { 8000 * U } :
             Calling("calculate_grass_color", <<t, p>>)

PickBiome ==
    /\ Returns("pick_biome", pick_biome(args[1], args[2], args[3]))
    /\ UNCHANGED <<harness, mapgen, calls>>

PickTile ==
    /\ Returns("pick_tile", pick_tile(args[1], args[2], args[3]))
    /\ UNCHANGED <<harness, mapgen, calls>>

Classify ==
    /\ Returns("classify", classify(args[1], args[2], args[3]))
    /\ UNCHANGED <<harness, mapgen, calls>>

GrassColor ==
    /\ Returns("calculate_grass_color", calculate_grass_color(args[1], args[2]))
    /\ UNCHANGED <<harness, mapgen, calls>>

NextClassify == PickBiome \/ PickTile \/ Classify \/ GrassColor

SpecClassify == InitClassify /\ [][NextClassify]_vars

-----------------------------------------------------------------------------
(* SpecClimate: the climate functions applied to the input grids *)

InitClimate ==
    /\ Idle /\ mapgen = "none" /\ calls = {}
    /\ \/ \E r \in { d \in DisGrid : d >= 0 }, h1 \in UnitGrid, h2 \in UnitGrid :
             Calling("get_heights", <<r, h1, h2>>)
       \/ \E a \in ElevationGrid, yd \in DisGrid, tn \in UnitGrid,
             l \in { WET_ADB_LAPSE_RATE, Mul(DRY_ADB_LAPSE_RATE, 50), DRY_ADB_LAPSE_RATE } :
             Calling("get_partial_temp", <<a, yd, l, tn>>)
       \/ \E a \in ElevationGrid, yd \in DisGrid, pt \in DraftGrid, tn \in UnitGrid,
             hn \in UnitGrid :
             Calling("get_percip_temp", <<a, yd, pt, tn, hn>>)

GetHeights ==
    /\ Returns("get_heights", get_heights(args[1], args[2], args[3]))
    /\ UNCHANGED <<harness, mapgen, calls>>

GetPartialTemp ==
    /\ Returns("get_partial_temp", get_partial_temp(args[1], args[2], args[3], args[4]))
    /\ UNCHANGED <<harness, mapgen, calls>>

GetPercipTemp ==
    /\ Returns("get_percip_temp", get_percip_temp(args[1], args[2], args[3], args[4], args[5]))
    /\ UNCHANGED <<harness, mapgen, calls>>

NextClimate == GetHeights \/ GetPartialTemp \/ GetPercipTemp

SpecClimate == InitClimate /\ [][NextClimate]_vars

-----------------------------------------------------------------------------
(* SpecNoise: the loop of NoiseMap::get_value over every output of the     *)
(* primitive                                                               *)

NoiseConfigs ==
    { [ noise_map |-> 0, octaves |-> o, scale |-> 100 * U, persistance |-> p,
        lacunarity |-> l ] :
      o \in 1..MaxOctaves, p \in { 8, 20, 30, 90 }, l \in { 120, 470 } }

InitNoise ==
    /\ Idle /\ mapgen = "none" /\ calls = {}
    /\ \E nm \in NoiseConfigs : \E samples \in [1..Octaves(nm) -> NoiseVals] :
          Calling("get_value", <<nm, samples>>)

GetValue ==
    /\ Returns("get_value", accumulate(args[1], args[2]))
    /\ UNCHANGED <<harness, mapgen, calls>>

NextNoise == GetValue

SpecNoise == InitNoise /\ [][NextNoise]_vars

-----------------------------------------------------------------------------
(* SpecTile: get_tile on a MapGen built as spawn_map builds it, from a     *)
(* seed, zoom and pan that update_inputs can produce; the generator then   *)
(* serves a sequence of get_tile calls.  transform and climate_sample, the *)
(* first two parts of get_tile, are also applied on their own.             *)

Seeds == { 829201, 99998 }

TileZooms == { U \div 2, U, 2 * U }

\* the same zooms as f64: 0.5, 1.0, 2.0
TileZoomsF64 == { << LIMB \div 2, 0 >>, << LIMB, 0 >>, << 2 * LIMB, 0 >> }

\* pans (x_shift, y_shift)
TilePans == { <<0, 0>>, <<U \div 2, -(U \div 2)>> }

\* tile numbers along an axis (spawn_map: -125..125)
TileNumbers == { -100, -50, -25, 0, 25, 50, 100 }

CallNumbers == { -100, 0, 50 }

WorldCoords(numbers) == { <<tile_coord(i), tile_coord(j)>> : i \in numbers, j \in numbers }

\* how many get_tile calls are remembered, and up to what count later calls
\* are counted
MaxRemembered == 1

MaxLater == 2

InitTile ==
    /\ seed \in Seeds /\ zoom \in TileZooms
    /\ zoom_f64 \in TileZoomsF64 /\ to_fixed(zoom_f64) = zoom
    /\ \E pan \in TilePans : x_shift = pan[1] /\ y_shift = pan[2]
    /\ changed = {} /\ tiles = {} /\ frame = Startup /\ history = NoHistory
    /\ mapgen = MapGen_new(seed, zoom, x_shift, y_shift, MAP_SIZE, TILE_SIZE, TILE_SCALE)
    /\ calls = {}
    /\ \/ \E c \in WorldCoords(TileNumbers) : Calling("transform", c)
       \/ \E c \in WorldCoords(TileNumbers) : Calling("climate_sample", c)
       \/ \E c \in WorldCoords(CallNumbers) : Calling("get_tile", c)

Transform ==
    /\ Returns("transform", transform(mapgen, args[1], args[2]))
    /\ UNCHANGED <<harness, mapgen, calls>>

ClimateSample ==
    /\ Returns("climate_sample", climate_sample(mapgen, args[1], args[2]))
    /\ UNCHANGED <<harness, mapgen, calls>>

\* the remembered calls, one more call having returned since
Aged == { [ c EXCEPT !.later = Min(c.later + 1, MaxLater) ] : c \in calls }

\* get_tile(&self, x, y) returns; the call may be remembered
GetTile ==
    LET returns(tile) ==
            /\ Returns("get_tile", tile)
            /\ \/ calls' = Aged
               \/ /\ Cardinality(calls) < MaxRemembered
                  /\ calls' = Aged \cup { [ mapgen |-> mapgen, args |-> args,
                                            tile |-> tile, later |-> 0 ] }
    IN  /\ returns(get_tile(mapgen, args[1], args[2]))
        /\ UNCHANGED <<harness, mapgen>>

\* the caller calls get_tile again, at any coordinate
GetTileAgain(c) ==
    /\ Returned("get_tile")
    /\ args' = c /\ ret' = <<>>
    /\ UNCHANGED <<harness, mapgen, op, calls>>

NextTile ==
    \/ Transform
    \/ ClimateSample
    \/ GetTile
    \/ \E c \in WorldCoords(CallNumbers) : GetTileAgain(c)

SpecTile == InitTile /\ [][NextTile]_vars

-----------------------------------------------------------------------------
(* SpecInput: the bevy app of TileMapPlugin::build.  The four resources    *)
(* start at Seed(829201), Zoom(1.0), XShift(0.0), YShift(0.0); spawn_map   *)
(* runs once at startup; then in every frame update_inputs and update_map  *)
(* each run once, in either order (build states no order between them).    *)
(* Of the 251 x 251 tiles spawn_map spawns, the model keeps those of the   *)
(* tile numbers in SpawnTiles; the camera entity is not modelled.          *)

Keys == { "Space", "Up", "Down", "A", "D", "S", "W" }

\* the keys just pressed in one frame: none, one of Space, Up, Down, or the
\* two pan keys of a diagonal, alone or with Down
KeySets ==
    { {}, { "Space" }, { "Up" }, { "Down" }, { "A", "S" }, { "D", "W" },
      { "Down", "D", "W" } }

\* the frames the model runs
MaxFrames == 7

\* the model presses Up only while zoom is below MaxZoom
MaxZoom == 120

\* values drawn by rng.gen_range(0..99999)
SeedDraws == { 0, 99998 }

\* the tile numbers (x, y) of the tiles the model keeps: two corners and the
\* centre of the map
SpawnTiles ==
    { <<-(MAP_SIZE \div 2), -(MAP_SIZE \div 2)>>, <<0, 0>>,
      <<MAP_SIZE \div 2, MAP_SIZE \div 2>> }

\* spawn_map lines 696-718: one sprite entity per tile
spawn_map(self) ==
    { [ translation |-> <<tile_coord(t[1]), tile_coord(t[2])>>,
        sprite |-> get_tile(self, tile_coord(t[1]), tile_coord(t[2])) ] : t \in SpawnTiles }

\* update_inputs lines 740-746: zoom (the f64) after the Up and Down tests
zoom_after(keys, z) ==
    LET down(z1) ==
            IF "Down" \in keys /\ f64_gt(z1, F64_FIFTH) THEN f64_sub(z1, F64_TENTH) ELSE z1
    IN  down(IF "Up" \in keys THEN f64_add(z, F64_TENTH) ELSE z)

pan_unguarded(less, more, keys, shift, z) ==
    LET right(s1) == IF more \in keys THEN s1 + Div(10, z) ELSE s1
    IN  right(IF less \in keys THEN shift - Div(10, z) ELSE shift)

\* update_inputs lines 748-762: a pan value after the tests of its two keys
\* (A then D for x_shift, S then W for y_shift), zoom being z by then
pan(less, more, keys, shift, z) ==
    LET right(s1) == IF more \in keys /\ s1 < 90 THEN s1 + Div(10, z) ELSE s1
    IN  right(IF less \in keys /\ shift > -90 THEN shift - Div(10, z) ELSE shift)

\* whether one of the two pan tests of update_inputs assigns the pan value
pan_assigned(less, more, keys, shift, z) ==
    \/ less \in keys /\ shift > -90
    \/ more \in keys /\ pan(less, "none", keys, shift, z) < 90

\* the resources update_inputs assigns through their ResMut (change detection
\* marks a resource on assignment, whatever the value)
assigned(keys) ==
    { r \in { "seed", "zoom", "x_shift", "y_shift" } :
        \/ r = "seed" /\ "Space" \in keys
        \/ r = "zoom" /\ ("Up" \in keys \/ ("Down" \in keys /\ f64_gt(zoom_f64, F64_FIFTH)))
        \/ r = "x_shift" /\ pan_assigned("A", "D", keys, x_shift,
                                         to_fixed(zoom_after(keys, zoom_f64)))
        \/ r = "y_shift" /\ pan_assigned("S", "W", keys, y_shift,
                                         to_fixed(zoom_after(keys, zoom_f64))) }

\* the frame once a system has run in it: the next frame when both have
Ran(system) ==
    IF frame.ran \cup { system } = { "update_inputs", "update_map" }
    THEN [ number |-> frame.number + 1, ran |-> {} ]
    ELSE [ number |-> frame.number, ran |-> frame.ran \cup { system } ]

\* a system runs in the current frame, the model running frames 1 .. frames
RunsWithin(frames, system) ==
    /\ frame.number \in 1..frames
    /\ system \notin frame.ran
    /\ frame' = Ran(system)

Runs(system) == RunsWithin(MaxFrames, system)

InitInput ==
    /\ seed = 829201 /\ zoom = U /\ zoom_f64 = F64_ONE /\ x_shift = 0 /\ y_shift = 0
    /\ changed = { "seed", "zoom", "x_shift", "y_shift" }
    /\ tiles = {} /\ frame = Startup /\ history = NoHistory
    /\ mapgen = "none" /\ op = "none" /\ args = <<>> /\ ret = <<>> /\ calls = {}

\* the startup system
SpawnMap ==
    /\ frame = Startup
    /\ mapgen' = MapGen_new(seed, zoom, x_shift, y_shift, MAP_SIZE, TILE_SIZE, TILE_SCALE)
    /\ tiles' = spawn_map(mapgen')
    /\ frame' = [ number |-> 1, ran |-> {} ]
    /\ UNCHANGED <<resources, changed, call, calls, history>>

\* the body of update_inputs, the keys just pressed being keys
update_inputs(keys) ==
    /\ "Up" \in keys => zoom < MaxZoom
    /\ \E drawn \in SeedDraws : seed' = IF "Space" \in keys THEN drawn ELSE seed
    /\ zoom_f64' = zoom_after(keys, zoom_f64)
    /\ zoom' = to_fixed(zoom_f64')
    /\ x_shift' = pan("A", "D", keys, x_shift, zoom')
    /\ y_shift' = pan("S", "W", keys, y_shift, zoom')
    /\ changed' = changed \cup assigned(keys)
    /\ UNCHANGED <<tiles, mapgen, call, calls>>

\* the MapGen spawn_map builds from the resources as they are
CurrentMap == MapGen_new(seed, zoom, x_shift, y_shift, MAP_SIZE, TILE_SIZE, TILE_SCALE)

\* the commands update_map queues: on a change of a resource since it last
\* ran, a despawn for every entity of the query and the spawns of spawn_map
update_map_commands ==
    IF changed # {}
    THEN [ despawn |-> tiles, spawn |-> spawn_map(CurrentMap) ]
    ELSE [ despawn |-> {}, spawn |-> {} ]

update_map_keeping_entities ==
    /\ LET applied(commands) == tiles' = tiles \cup commands.spawn
       IN  applied(update_map_commands)
    /\ mapgen' = IF changed # {} THEN CurrentMap ELSE mapgen
    /\ changed' = {}
    /\ UNCHANGED <<resources, call, calls>>

\* the body of update_map with its commands applied (bevy applies them, in
\* the order queued, before the next frame; update_inputs does not read the
\* entities)
update_map ==
    /\ LET applied(commands) == tiles' = (tiles \ commands.despawn) \cup commands.spawn
       IN  applied(update_map_commands)
    /\ mapgen' = IF changed # {} THEN CurrentMap ELSE mapgen
    /\ changed' = {}
    /\ UNCHANGED <<resources, call, calls>>

UpdateInputs(keys) == Runs("update_inputs") /\ update_inputs(keys) /\ UNCHANGED history

UpdateMap == Runs("update_map") /\ update_map /\ UNCHANGED history

NextInput ==
    \/ SpawnMap
    \/ \E keys \in KeySets : UpdateInputs(keys)
    \/ UpdateMap

SpecInput == InitInput /\ [][NextInput]_vars

-----------------------------------------------------------------------------
(* SpecZoom: the same app when only Up and Down are pressed, run for the   *)
(* frames it takes zoom to come down from 1.0 to its lowest value and to   *)
(* be pressed down once more.                                              *)

ZoomKeySets == { {}, { "Up" }, { "Down" }, { "Up", "Down" } }

MaxZoomFrames == 10

PressZoomKeys(keys) ==
    RunsWithin(MaxZoomFrames, "update_inputs") /\ update_inputs(keys) /\ UNCHANGED history

RedrawZoomed == RunsWithin(MaxZoomFrames, "update_map") /\ update_map /\ UNCHANGED history

NextZoom ==
    \/ SpawnMap
    \/ \E keys \in ZoomKeySets : PressZoomKeys(keys)
    \/ RedrawZoomed

SpecZoom == InitInput /\ [][NextZoom]_vars

-----------------------------------------------------------------------------
(* SpecRedraw: the same app for a few frames, with a history of what       *)
(* update_map was seen to do: the commands it queued, and how long an      *)
(* assignment made by update_inputs waited for them.                       *)

RedrawKeySets == { {}, { "Space" }, { "Up" }, { "Down" }, { "A" }, { "W" }, { "Up", "Down" } }

MaxRedrawFrames == 3

RecordInputs(keys) ==
    /\ RunsWithin(MaxRedrawFrames, "update_inputs")
    /\ update_inputs(keys)
    /\ history' = [ history EXCEPT
                     !.pending = IF @ = 0 /\ assigned(keys) # {} THEN frame.number ELSE @ ]

RecordMap ==
    /\ RunsWithin(MaxRedrawFrames, "update_map")
    /\ update_map
    /\ LET seen(respawned) ==
               history' =
                   IF respawned
                   THEN [ respawns |-> history.respawns + 1,
                          pending |-> 0,
                          waited |-> IF history.pending = 0 THEN history.waited
                                     ELSE frame.number - history.pending ]
                   ELSE history
       IN  seen(update_map_commands.spawn # {})

NextRedraw ==
    \/ SpawnMap
    \/ \E keys \in RedrawKeySets : RecordInputs(keys)
    \/ RecordMap

SpecRedraw == InitInput /\ [][NextRedraw]_vars

-----------------------------------------------------------------------------
(* SpecLapse: the first steps of get_percip_temp on their own, the         *)
(* evaporation probability of a draft temperature (lines 296-307) and the  *)
(* effective lapse rate of an evaporation probability (line 309).          *)

\* pass-1 draft temperatures, from -60.00 to 70.00 degrees
DraftRange == (-(60 * U)) .. (70 * U)

InitLapse ==
    /\ Idle /\ mapgen = "none" /\ calls = {}
    /\ \/ \E partial_temp \in DraftRange : Calling("evap_prob", <<partial_temp>>)
       \/ \E evap_prob \in 0..U : Calling("avg_lapse_rate", <<evap_prob>>)

EvapProb ==
    /\ Returns("evap_prob", evap_prob_of(args[1]))
    /\ UNCHANGED <<harness, mapgen, calls>>

AvgLapseRate ==
    /\ Returns("avg_lapse_rate", avg_lapse_rate_of(args[1]))
    /\ UNCHANGED <<harness, mapgen, calls>>

NextLapse == EvapProb \/ AvgLapseRate

SpecLapse == InitLapse /\ [][NextLapse]_vars

-----------------------------------------------------------------------------
(* Claims about the biome classifier (under SpecClassify) *)

\* the reference table of C1: bands by upper-closed thresholds
TempBand(t) == Cardinality({ c \in TempCuts : t > c })

PrecCutSeq == << 125 * U, 250 * U, 500 * U, 1000 * U, 2000 * U, 4000 * U, 8000 * U >>

CutsUsed == << 0, 3, 4, 5, 6, 7 >>

PrecBand(band, p) == Cardinality({ i \in 1..CutsUsed[band + 1] : p > PrecCutSeq[i] })

ReferenceTable ==
    << << "PolarDesert" >>,
       << "SubpolarDryTundra", "SubpolarMoistTundra", "SubpolarWetTundra",
          "SubpolarRainTundra" >>,
       << "BorealDesert", "BorealDryScrub", "BorealMoistForest", "BorealWetForest",
          "BorealRainForest" >>,
       << "TemperateDesert", "TemperateDesertScrub", "TemperateSteppe",
          "TemperateMoistForest", "TemperateWetForest", "TemperateRainForest" >>,
       << "SubtropicalDesert", "SubtropicalDesertScrub", "SubtropicalThornWoodland",
          "SubtropicalDryForest", "SubtropicalMoistForest", "SubtropicalWetForest",
          "SubtropicalRainForest" >>,
       << "TropicalDesert", "TropicalDesertScrub", "TropicalThornWoodland",
          "TropicalVeryDryForest", "TropicalDryForest", "TropicalMoistForest",
          "TropicalWetForest", "TropicalRainForest" >> >>

ReferenceBiome(t, p) == ReferenceTable[TempBand(t) + 1][PrecBand(TempBand(t), p) + 1]

\* C1: for height > 0, pick_biome returns the one biome of the reference table:
\* temperature band by the upper-closed thresholds 0, 3, 6, 12, 24, and within
\* the band the precipitation sub-band by the first 0, 3, 4, 5, 6, 7 of the
\* upper-closed cutoffs 125 .. 8000.
C1_PickBiomeIsReferenceTable ==
    (Returned("pick_biome") /\ args[1] > 0) => Result = ReferenceBiome(args[2], args[3])

\* C1 witness: a land sample just above temperature 3 with precipitation exactly
\* 125 was classified boreal desert
C1_Witness ==
    /\ Returned("pick_biome") /\ args[1] > 0
    /\ args[2] = 3 * U + 1 /\ args[3] = 125 * U
    /\ Result = "BorealDesert"

OceanIndex == ocean_tile(0, 0).index

\* C2 as stated: height <= 0, biome = Ocean and sprite index = ocean index are
\* equivalent for every classified tile
C2_OceanIffOceanIndex ==
    Returned("classify") =>
        /\ (args[1] <= 0) <=> (Result.biome = "Ocean")
        /\ (Result.biome = "Ocean") <=> (Result.tile.index = OceanIndex)

\* C2 amended: height <= 0 exactly when the biome is Ocean, exactly when the tile
\* is the ocean tile (sprite index and color); the sprite index alone is the
\* ocean index exactly for the biomes Ocean and PolarDesert
C2_OceanIffOceanTile ==
    Returned("classify") =>
        /\ (args[1] <= 0) <=> (Result.biome = "Ocean")
        /\ (Result.biome = "Ocean") <=> (Result.tile = ocean_tile(args[2], args[3]))
        /\ (Result.tile.index = OceanIndex) <=> (Result.biome \in { "Ocean", "PolarDesert" })

\* C2 witness: a hot, wet sample at height exactly 0 was classified Ocean and
\* given the ocean tile
C2_Witness ==
    /\ Returned("classify") /\ args[1] = 0 /\ args[2] = 40 * U /\ args[3] = 16000 * U
    /\ Result.biome = "Ocean" /\ Result.tile.index = OceanIndex

\* C7: the tile pick_tile returns has a sprite index that is a cell of the
\* 6-cell texture atlas, for every biome, temperature and precipitation
C7_SpriteIndexInAtlas ==
    /\ Returned("pick_tile") => Result.index \in 0..(ATLAS_CELLS - 1)
    /\ Returned("classify") => Result.tile.index \in 0..(ATLAS_CELLS - 1)

\* C7 witness: pick_tile returned the tropical desert tile, sprite 2
C7_Witness ==
    Returned("pick_tile") /\ args[1] = "TropicalDesert" /\ Result.index = 2

InUnit(c) == c >= 0 /\ c <= U

\* C8: at (temperature 0, precipitation 0) and (temperature 40, precipitation
\* 8000) every channel of calculate_grass_color is within [0, 1]
C8_GrassColorInRange ==
    (Returned("calculate_grass_color") /\ args \in { <<0, 0>>, <<40 * U, 8000 * U>> }) =>
        \A i \in 1..3 : InUnit(Result[i])

\* C8 witness: the color at (40, 8000) was computed, its green channel above 0.9
C8_Witness ==
    /\ Returned("calculate_grass_color") /\ args = <<40 * U, 8000 * U>>
    /\ Result[2] > 90 /\ Result[2] <= U

-----------------------------------------------------------------------------
(* Claims about the climate functions (under SpecClimate) *)

\* C3: the precipitation get_percip_temp returns never exceeds the cap
\* 500 * temperature - 80 computed from the temperature it returns
C3_PrecipitationBelowCap ==
    Returned("get_percip_temp") => Result[1] <= 500 * Result[2] - 80 * U

\* C3 witness: a call whose raw precipitation exceeded the cap returned the cap
C3_Witness ==
    /\ Returned("get_percip_temp")
    /\ get_percip_temp_uncapped(args[1], args[2], args[3], args[4], args[5])[1] > Result[1]
    /\ Result[1] = 500 * Result[2] - 80 * U

-----------------------------------------------------------------------------
(* Claims about the noise sampler (under SpecNoise) *)

\* C6: get_value returns a value in [0, 1] whatever the primitive returns in
\* [-1, 1] at each octave
C6_NoiseInUnitRange == Returned("get_value") => InUnit(Result)

\* C6 witness: three octaves with persistence 0.9, the primitive returning 1 each
\* time (weighted sum 2.71), returned exactly 1
C6_Witness ==
    /\ Returned("get_value") /\ args[1].persistance = 90 /\ args[1].octaves = 3
    /\ \A i \in 1..3 : args[2][i] = U
    /\ accumulate_unclamped(args[1], args[2]) > U
    /\ Result = U

-----------------------------------------------------------------------------
(* Claims about get_tile (under SpecTile) *)

\* C4 as stated: the precipitation of every climate sample is >= 0
C4_PrecipitationNonNegative ==
    Returned("climate_sample") => Result.percipitation >= 0

\* the generator of the same seed, pan and geometry at zoom 1
AtZoomOne == MapGen_new(seed, U, x_shift, y_shift, MAP_SIZE, TILE_SIZE, TILE_SCALE)

SameDis(a, b) == a.x_dis = b.x_dis /\ a.y_dis = b.y_dis

\* C5 as stated: at zoom 2 the world coordinate (2x, 2y) has the normalized pair
\* (x_dis, y_dis) that (x, y) has at zoom 1
C5_DoubleZoomDoubleCoordinate ==
    (Returned("transform") /\ mapgen.zoom = 2 * U) =>
        SameDis(Result, transform(AtZoomOne, Quot(args[1], 2), Quot(args[2], 2)))

\* C5 amended: at zoom 2 the world coordinate (4x, 4y) has the normalized pair
\* (x_dis, y_dis) that (x, y) has at zoom 1
C5_DoubleZoomFourfoldCoordinate ==
    (Returned("transform") /\ mapgen.zoom = 2 * U) =>
        SameDis(Result, transform(AtZoomOne, Quot(args[1], 4), Quot(args[2], 4)))

\* C5 witness: with pan (0.5, -0.5) and zoom 2, world coordinate (400, -200)
\* was transformed to (x_dis, y_dis) = (0.7, -0.6), as (100, -50) is at zoom 1
C5_Witness ==
    /\ Returned("transform") /\ mapgen.zoom = 2 * U
    /\ x_shift = U \div 2 /\ y_shift = -(U \div 2)
    /\ args = <<400 * U, (-200) * U>>
    /\ Result.x_dis = 70 /\ Result.y_dis = -60

-----------------------------------------------------------------------------
(* Claims about the key handling (under SpecInput) *)

\* C10 as stated: pan-x and pan-y each remain within [-0.9, 0.9]
C10_PanWithinBounds == Abs(x_shift) <= 90 /\ Abs(y_shift) <= 90

\* one pan value over a step: it moves outward only from strictly inside the
\* bound of that side, and by at most one step of 0.1 / zoom
GuardedStep(shift, shift_, z) ==
    /\ shift_ > shift => (shift < 90 /\ shift_ <= shift + Div(10, z))
    /\ shift_ < shift => (shift > -90 /\ shift_ >= shift - Div(10, z))

\* C10 amended: a pan value is not confined to [-0.9, 0.9]; a press moves it
\* outward only while it is strictly inside the bound of that side, by one
\* step of 0.1 / zoom, so it passes the bound by less than one step and, once
\* at or beyond the bound, moves no further out
C10_PanMovesOutOnlyFromInside ==
    [][GuardedStep(x_shift, x_shift', zoom') /\ GuardedStep(y_shift, y_shift', zoom')]_vars

\* C10 witness: D was handled while pan-x was inside the bound and carried it
\* beyond 0.9
C10_Witness == x_shift > 90 /\ x_shift < 90 + Div(10, zoom) /\ "x_shift" \in changed

-----------------------------------------------------------------------------
(* Claims about zoom (under SpecZoom) *)

\* C11 as stated: zoom never drops below 0.2 (so that every MapGen is built
\* with zoom > 0)
C11_ZoomAtLeastFifth == ~f64_gt(F64_FIFTH, zoom_f64)

\* what remains of C11: zoom, and the zoom of every MapGen built, is above 0.1
ZoomAboveTenth ==
    /\ f64_gt(zoom_f64, F64_TENTH) /\ zoom = to_fixed(zoom_f64) /\ zoom >= 10
    /\ frame # Startup => mapgen.zoom >= 10

-----------------------------------------------------------------------------
(* Claims about regeneration (under SpecRedraw) *)

\* an assignment made by update_inputs in frame n is answered by the run of
\* update_map that is still to come in frame n or in frame n + 1
AnsweredByNextFrame ==
    /\ history.waited \in { 0, 1 }
    /\ history.pending # 0 =>
           /\ changed # {}
           /\ "update_map" \notin frame.ran
           /\ frame.number \in { history.pending, history.pending + 1 }

\* once update_map has answered, the entities are the tiles of the
\* configuration as it is, and nothing else
NothingStale ==
    history.pending = 0 /\ history.respawns > 0 =>
        tiles = spawn_map(CurrentMap) /\ mapgen = CurrentMap

\* C12 as stated: a changed seed, zoom or pan is redrawn by update_map no
\* later than the following frame, nothing computed from an earlier
\* configuration remains after it, and update_map leaves the tiles untouched
\* when no configuration value changed
C12_UntouchedWhenNoValueChanged ==
    /\ []AnsweredByNextFrame
    /\ []NothingStale
    /\ [][RecordMap /\ mapgen = CurrentMap => history'.respawns = history.respawns]_vars

\* C12, amended: the same, but update_map leaves the tiles untouched exactly
\* when no resource was assigned since its last run (its first run, and an
\* assignment of the value a resource already has, respawn the same map)
C12_UntouchedWhenNothingAssigned ==
    /\ []AnsweredByNextFrame
    /\ []NothingStale
    /\ [][RecordMap => (history'.respawns = history.respawns <=> changed = {})]_vars

\* update_map has respawned the map of a configuration that a key press of
\* the frame before had changed
C12_Witness ==
    /\ history.respawns >= 2 /\ history.waited = 1 /\ history.pending = 0
    /\ mapgen # MapGen_new(829201, U, 0, 0, MAP_SIZE, TILE_SIZE, TILE_SCALE)
    /\ tiles = spawn_map(mapgen)

-----------------------------------------------------------------------------
(* Claims about the lapse rate (under SpecLapse) *)

\* max(0, 1 - |clamp(draft, 0, 40) - 20| / 20)
Triangular(draft) ==
    LET clamp == IF draft < 0 THEN 0 ELSE IF draft > 40 * U THEN 40 * U ELSE draft
        fall == U - Div(Abs(clamp - 20 * U), 20 * U)
    IN  IF fall < 0 THEN 0 ELSE fall

\* C13: the evaporation probability of a draft temperature is within [0, 1]
\* and is the triangular function of the draft clamped to [0, 40]: 1 at
\* draft 20 (and, to the model's two decimals, nowhere further than 0.2 from
\* it), 0 for every draft <= 0 and every draft >= 40
C13_EvapProbIsTriangular ==
    Returned("evap_prob") =>
        /\ Result \in 0..U
        /\ Result = Triangular(args[1])
        /\ args[1] = 20 * U => Result = U
        /\ Result = U => Abs(args[1] - 20 * U) < 20
        /\ args[1] <= 0 \/ args[1] >= 40 * U => Result = 0

\* C13 witness: a draft above 40, which the code sets to 0 where the
\* triangular function clamps it to 40, has evaporation probability 0
C13_Witness == Returned("evap_prob") /\ args[1] > 40 * U /\ Result = 0

\* C14 as stated: the effective lapse rate is the blend p * WET + (1 - p) * DRY
\* of the wet and dry adiabatic lapse rates, and lies between the two
C14_LapseRateIsBlend ==
    Returned("avg_lapse_rate") =>
        /\ Result = Mul(WET_ADB_LAPSE_RATE, args[1]) + Mul(DRY_ADB_LAPSE_RATE, U - args[1])
        /\ Result >= WET_ADB_LAPSE_RATE
        /\ Result <= DRY_ADB_LAPSE_RATE

\* what the code computes instead: half the blend, below the wet rate
LapseRateIsHalfBlend ==
    Returned("avg_lapse_rate") =>
        /\ 2 * Result = Mul(WET_ADB_LAPSE_RATE, args[1]) + Mul(DRY_ADB_LAPSE_RATE, U - args[1])
        /\ Result < WET_ADB_LAPSE_RATE

\* the rest of C14 (under SpecClimate): the temperature get_percip_temp
\* returns is get_partial_temp with the effective lapse rate
TrueTempIsPassTwo ==
    Returned("get_percip_temp") =>
        Result[2] = get_partial_temp(args[1], args[2],
                                     avg_lapse_rate_of(evap_prob_of(args[3])), args[4])

====
